---- MODULE Spec2Model ----
(***************************************************************************)
(* V4-std: the SYS call handler registry (src/src/sys_handlers.cpp) and    *)
(* the Device Descriptor Table (src/src/ddt.cpp) as state machines.        *)
(*                                                                         *)
(* Pointers are modelled by what they point at: a SysHandler is the name   *)
(* of the function, a DdtProvider* is the name of the provider object, and *)
(* a const v4dev_desc_t* into a provider's table is the 1-based position   *)
(* of the descriptor in that table.  A null pointer is NULL (handlers,     *)
(* providers) or position 0 (descriptors).                                 *)
(***************************************************************************)
EXTENDS Integers, Sequences, FiniteSets, TLC

VARIABLES
  handler_registry,  \* std::unordered_map<uint16_t, SysHandler>
  registry_before,   \* history: handler_registry as it was before the last call
  ever_registered,   \* history: the SYS ids that have ever had a mapping
  cleared_size,      \* history: size of the registry the latest clear emptied, -1 if none
  provider_,         \* Ddt::provider_
  tables,            \* what each provider object's get_devices() returns
  installed,         \* history: the argument of the latest set_provider call
  nulled_from,       \* history: the provider the latest set_provider(nullptr) displaced
  led_hal,           \* static LedHal* led_hal
  led_states,        \* the driver's recorded physical level of each handle
  hal_ok,            \* whether the driver's writes succeed
  unconfigured_call, \* history: the LED call that last failed for want of a driver or provider
  toggled_from,      \* history: <<led_states before the first of two successful TOGGLEs in a row>>
  running,           \* the call in progress: its position in the code and what it has done so far
  led_before,        \* history: led_states as it was before the last call
  led_log,           \* history: the table and driver calls the last call's handler made
  last               \* history: the last call, its arguments, result and callee calls

vars == <<handler_registry, registry_before, ever_registered, cleared_size,
          provider_, tables, installed, nulled_from,
          led_hal, led_states, hal_ok, unconfigured_call, toggled_from,
          running, led_before, led_log, last>>

NULL == "nullptr"

----------------------------------------------------------------------------
(* Program constants *)

V4SYS_LED_ON == 256
V4SYS_LED_OFF == 257
V4SYS_LED_TOGGLE == 258
V4SYS_LED_SET == 259
V4SYS_LED_GET == 272
V4SYS_BUTTON_READ == 512

V4DEV_NONE == 0
V4DEV_LED == 1
V4DEV_BUTTON == 2
V4DEV_TIMER == 4
V4DEV_UART == 5

V4ROLE_STATUS == 1
V4ROLE_USER == 2
V4ROLE_CONSOLE == 4

V4DEV_FLAG_ACTIVE_LOW == 1

----------------------------------------------------------------------------
(* Bounds of the model *)

\* longest descriptor table a freely chosen provider returns
MaxDevices == 2

\* the same, where the sequence of installs is followed (SpecInstall)
MaxInstallDevices == 1

\* SYS ids the callers use
SysIds == {V4SYS_LED_ON, V4SYS_LED_OFF, V4SYS_BUTTON_READ}

\* int32_t argument values the callers pass to invoke_sys_handler
ArgValues == {-1, 7}

\* handler functions that exist in the program (tests/test_sys_handlers.cpp)
Handlers == {"mock_led_on", "mock_led_off", "mock_echo_args"}

\* provider objects that exist in the program
ProviderIds == {"p1", "p2"}

\* field values of the descriptors of a freely chosen table
Kinds == {V4DEV_LED, V4DEV_BUTTON}
Roles == {V4ROLE_STATUS, V4ROLE_USER}
Indexes == {0, 1}
\* <<flags, handle>> of a descriptor: an active-high and an active-low pin
Pins == {<<0, 7>>, <<V4DEV_FLAG_ACTIVE_LOW, 8>>}

\* values the callers query with (one more than any table holds, in each field)
QueryKinds == Kinds \cup {V4DEV_NONE}
QueryRoles == Roles
QueryIndexes == Indexes \cup {99}

Descriptors ==
  {[kind |-> k, role |-> r, index |-> i, flags |-> p[1], handle |-> p[2]] :
     k \in Kinds, r \in Roles, i \in Indexes, p \in Pins}

TablesUpTo(n) == UNION {[1..k -> Descriptors] : k \in 0..n}

----------------------------------------------------------------------------
(* tests/test_ddt.cpp: MockDdtProvider::get_devices *)

DdtTestDevices ==
  << [kind |-> V4DEV_LED, role |-> V4ROLE_STATUS, index |-> 0, flags |-> 0, handle |-> 7],
     [kind |-> V4DEV_LED, role |-> V4ROLE_USER, index |-> 0, flags |-> 0, handle |-> 8],
     [kind |-> V4DEV_LED, role |-> V4ROLE_USER, index |-> 1,
      flags |-> V4DEV_FLAG_ACTIVE_LOW, handle |-> 10],
     [kind |-> V4DEV_BUTTON, role |-> V4ROLE_USER, index |-> 0,
      flags |-> V4DEV_FLAG_ACTIVE_LOW, handle |-> 9],
     [kind |-> V4DEV_UART, role |-> V4ROLE_CONSOLE, index |-> 0, flags |-> 0, handle |-> 0],
     [kind |-> V4DEV_TIMER, role |-> V4ROLE_STATUS, index |-> 0, flags |-> 0, handle |-> 0] >>

\* the handles a driver is asked about
Handles == {0, 7, 8, 9, 10}

----------------------------------------------------------------------------
(* tests/test_sys_led.cpp: MockDdtProvider::get_devices *)

MockDevices ==
  << [kind |-> V4DEV_LED, role |-> V4ROLE_STATUS, index |-> 0, flags |-> 0, handle |-> 7],
     [kind |-> V4DEV_LED, role |-> V4ROLE_USER, index |-> 0, flags |-> 0, handle |-> 8],
     [kind |-> V4DEV_LED, role |-> V4ROLE_USER, index |-> 1,
      flags |-> V4DEV_FLAG_ACTIVE_LOW, handle |-> 10] >>

----------------------------------------------------------------------------
(* Calls and what they leave alone *)

\* no call in progress; after a call, the fields keep what that call did
Idle ==
  [pc |-> "idle", op |-> "none", args |-> <<>>, i |-> 0, count |-> 0, visited |-> <<>>,
   handler |-> NULL, lookups |-> 0, handler_calls |-> 0]

\* the record of a call: its name, arguments, result and the handler calls it made
Call(op, args, ret, calls) == [op |-> op, args |-> args, ret |-> ret, calls |-> calls]

\* a call that is no registry function: the registry stays as it is
NoRegistryCall ==
  /\ registry_before' = handler_registry
  /\ UNCHANGED <<handler_registry, ever_registered, cleared_size, unconfigured_call>>

\* a call that runs no LED handler: the driver stays as it is
NoLedCall ==
  /\ led_before' = led_states
  /\ led_log' = <<>>
  /\ toggled_from' = <<>>
  /\ UNCHANGED <<led_states, hal_ok>>

----------------------------------------------------------------------------
(* ddt.cpp *)

\* provider_->get_devices()
get_devices(provider) == tables[provider]

\* mutant: the scan goes on after a match and returns the last one
RECURSIVE FindFrom_last(_, _, _, _, _)
FindFrom_last(devices, i, kind, role, index) ==
  IF i > Len(devices) THEN 0
  ELSE LET later == FindFrom_last(devices, i + 1, kind, role, index) IN
       IF later # 0 THEN later
       ELSE IF /\ devices[i].kind = kind
               /\ devices[i].role = role
               /\ devices[i].index = index
            THEN i
            ELSE 0

\* mutant: the index is not compared
RECURSIVE FindFrom_noindex(_, _, _, _, _)
FindFrom_noindex(devices, i, kind, role, index) ==
  IF i > Len(devices) THEN 0
  ELSE IF /\ devices[i].kind = kind
          /\ devices[i].role = role
       THEN i
       ELSE FindFrom_noindex(devices, i + 1, kind, role, index)

\* mutant: end() returned in place of nullptr
RECURSIVE FindFrom_end(_, _, _, _, _)
FindFrom_end(devices, i, kind, role, index) ==
  IF i > Len(devices) THEN i
  ELSE IF /\ devices[i].kind = kind
          /\ devices[i].role = role
          /\ devices[i].index = index
       THEN i
       ELSE FindFrom_end(devices, i + 1, kind, role, index)

\* for (const auto& dev : devices) if (...) return &dev;  return nullptr;
RECURSIVE FindFrom(_, _, _, _, _)
FindFrom(devices, i, kind, role, index) ==
  IF i > Len(devices) THEN 0
  ELSE IF /\ devices[i].kind = kind
          /\ devices[i].role = role
          /\ devices[i].index = index
       THEN i
       ELSE FindFrom(devices, i + 1, kind, role, index)

find_device(kind, role, index) ==
  IF provider_ = NULL THEN 0
  ELSE FindFrom(get_devices(provider_), 1, kind, role, index)

\* mutant: the first descriptor of that kind and role, whatever its index
find_default_device_first(kind, role) ==
  IF provider_ = NULL THEN 0
  ELSE FindFrom_noindex(get_devices(provider_), 1, kind, role, 0)

find_default_device(kind, role) == find_device(kind, role, 0)

\* for (const auto& dev : devices) if (dev.kind == kind) ++count;
RECURSIVE CountFrom(_, _, _, _)
CountFrom(devices, i, kind, count) ==
  IF i > Len(devices) THEN count
  ELSE CountFrom(devices, i + 1, kind,
                 IF devices[i].kind = kind THEN count + 1 ELSE count)

\* mutant: the scan starts at the second descriptor
count_devices_skipfirst(kind) ==
  IF provider_ = NULL THEN 0
  ELSE CountFrom(get_devices(provider_), 2, kind, 0)

count_devices(kind) ==
  IF provider_ = NULL THEN 0
  ELSE CountFrom(get_devices(provider_), 1, kind, 0)

get_all_devices ==
  IF provider_ = NULL THEN <<>>
  ELSE get_devices(provider_)

\* mutant: a null provider is refused
set_provider_nonnull(provider) == IF provider = NULL THEN provider_ ELSE provider

\* provider_ = provider
set_provider(provider) == provider

SetProviderCall(provider) ==
  /\ provider_' = set_provider(provider)
  /\ last' = Call("set_provider", <<provider>>, NULL, <<>>)
  /\ installed' = provider
  /\ NoRegistryCall
  /\ UNCHANGED running
  /\ NoLedCall
  /\ UNCHANGED <<tables, led_hal>>

SetProvider(provider) ==
  /\ SetProviderCall(provider)
  /\ UNCHANGED nulled_from

\* the same call, with the displaced provider remembered
SetProviderTracked(provider) ==
  /\ SetProviderCall(provider)
  /\ nulled_from' = IF provider = NULL /\ installed # NULL THEN installed ELSE nulled_from

FindDevice(kind, role, index) ==
  /\ last' = Call("find_device", <<kind, role, index>>, find_device(kind, role, index), <<>>)
  /\ NoRegistryCall
  /\ UNCHANGED running
  /\ NoLedCall
  /\ UNCHANGED <<provider_, tables, installed, nulled_from, led_hal>>

FindDefaultDevice(kind, role) ==
  /\ last' = Call("find_default_device", <<kind, role>>, find_default_device(kind, role), <<>>)
  /\ NoRegistryCall
  /\ UNCHANGED running
  /\ NoLedCall
  /\ UNCHANGED <<provider_, tables, installed, nulled_from, led_hal>>

CountDevices(kind) ==
  /\ last' = Call("count_devices", <<kind>>, count_devices(kind), <<>>)
  /\ NoRegistryCall
  /\ UNCHANGED running
  /\ NoLedCall
  /\ UNCHANGED <<provider_, tables, installed, nulled_from, led_hal>>

GetAllDevices ==
  /\ last' = Call("get_all_devices", <<>>, get_all_devices, <<>>)
  /\ NoRegistryCall
  /\ UNCHANGED running
  /\ NoLedCall
  /\ UNCHANGED <<provider_, tables, installed, nulled_from, led_hal>>

----------------------------------------------------------------------------
(* sys_led.hpp: the LedHal a platform installs.  Its state is the physical  *)
(* level it recorded per handle (tests/test_sys_led.cpp: MockLedHal, where *)
(* a handle never written reads false); a write that fails returns false   *)
(* and records nothing.                                                    *)

\* bool physical_state = active_low ? !state : state
Physical(state, active_low) == IF active_low THEN ~state ELSE state

\* LedHal::set_led(handle, state, active_low): its result and the levels it leaves
set_led(states, handle, state, active_low) ==
  IF hal_ok
    THEN [ok |-> TRUE, states |-> [states EXCEPT ![handle] = Physical(state, active_low)]]
    ELSE [ok |-> FALSE, states |-> states]

\* LedHal::get_led(handle, active_low)
get_led(states, handle, active_low) == Physical(states[handle], active_low)

----------------------------------------------------------------------------
(* sys_led.cpp *)

LedHandlers == {"sys_led_on", "sys_led_off", "sys_led_toggle", "sys_led_set", "sys_led_get"}

\* static_cast<uint8_t>(x)
ToUint8(x) == x % 256

\* mutant: any flag bit counts
FlagSet_nonzero(flags, mask) == flags # 0

\* (flags & mask) != 0, mask a single bit
FlagSet(flags, mask) == (flags \div mask) % 2 = 1

\* set_led_hal: led_hal = hal
set_led_hal(hal) == hal

\* a handler's result, the levels it leaves and the calls it made in order:
\* <<"find_device", kind, role, index>>, <<"get_led", handle, active_low, result>>,
\* <<"set_led", handle, state, active_low, result>>
LedOutcome(ret, states, log) == [ret |-> ret, led_states |-> states, led_log |-> log]

\* mutant: the kind is not validated
find_led_anykind(kind, role, index) ==
  [dev |-> find_device(kind, role, ToUint8(index)),
   log |-> << <<"find_device", kind, role, ToUint8(index)>> >>]

\* the descriptor pointer, 0 for nullptr, and the find_device call made for it
find_led(kind, role, index) ==
  IF kind # V4DEV_LED
    THEN [dev |-> 0, log |-> <<>>]
    ELSE [dev |-> find_device(kind, role, ToUint8(index)),
          log |-> << <<"find_device", kind, role, ToUint8(index)>> >>]

\* *led, for a descriptor pointer that is not null
Deref(dev) == get_devices(provider_)[dev]

\* mutant: the descriptor's index used as the driver handle
WriteLed_index(led, state) ==
  LET desc == Deref(led.dev)
      active_low == FlagSet(desc.flags, V4DEV_FLAG_ACTIVE_LOW)
      write == set_led(led_states, desc.index, state, active_low)
  IN  LedOutcome(IF write.ok THEN 1 ELSE 0, write.states,
                 led.log \o << <<"set_led", desc.index, state, active_low, write.ok>> >>)

\* mutant: the handler inverts the state itself before it calls the driver
WriteLed_physical(led, state) ==
  LET desc == Deref(led.dev)
      active_low == FlagSet(desc.flags, V4DEV_FLAG_ACTIVE_LOW)
      physical_state == Physical(state, active_low)
      write == set_led(led_states, desc.handle, physical_state, active_low)
  IN  LedOutcome(IF write.ok THEN 1 ELSE 0, write.states,
                 led.log \o
                 << <<"set_led", desc.handle, physical_state, active_low, write.ok>> >>)

\* mutant: the active-low flag is not passed on
WriteLed_noflag(led, state) ==
  LET desc == Deref(led.dev)
      write == set_led(led_states, desc.handle, state, FALSE)
  IN  LedOutcome(IF write.ok THEN 1 ELSE 0, write.states,
                 led.log \o << <<"set_led", desc.handle, state, FALSE, write.ok>> >>)

\* mutant: the driver's result is dropped
WriteLed_ignoreresult(led, state) ==
  LET desc == Deref(led.dev)
      active_low == FlagSet(desc.flags, V4DEV_FLAG_ACTIVE_LOW)
      write == set_led(led_states, desc.handle, state, active_low)
  IN  LedOutcome(1, write.states,
                 led.log \o << <<"set_led", desc.handle, state, active_low, write.ok>> >>)

\* led_hal->set_led(led->handle, state, active_low); return success ? 1 : 0
WriteLed(led, state) ==
  LET desc == Deref(led.dev)
      active_low == FlagSet(desc.flags, V4DEV_FLAG_ACTIVE_LOW)
      write == set_led(led_states, desc.handle, state, active_low)
  IN  LedOutcome(IF write.ok THEN 1 ELSE 0, write.states,
                 led.log \o << <<"set_led", desc.handle, state, active_low, write.ok>> >>)

sys_led_on(sys_id, arg0, arg1, arg2) ==
  IF led_hal = NULL THEN LedOutcome(0, led_states, <<>>)
  ELSE LET led == find_led(arg0, arg1, arg2) IN
       IF led.dev = 0 THEN LedOutcome(0, led_states, led.log)
       ELSE WriteLed(led, TRUE)

sys_led_off(sys_id, arg0, arg1, arg2) ==
  IF led_hal = NULL THEN LedOutcome(0, led_states, <<>>)
  ELSE LET led == find_led(arg0, arg1, arg2) IN
       IF led.dev = 0 THEN LedOutcome(0, led_states, led.log)
       ELSE WriteLed(led, FALSE)

\* mutant: the level is read without the active-low flag
sys_led_toggle_physical(sys_id, arg0, arg1, arg2) ==
  IF led_hal = NULL THEN LedOutcome(0, led_states, <<>>)
  ELSE LET led == find_led(arg0, arg1, arg2) IN
       IF led.dev = 0 THEN LedOutcome(0, led_states, led.log)
       ELSE LET desc == Deref(led.dev)
                active_low == FlagSet(desc.flags, V4DEV_FLAG_ACTIVE_LOW)
                current_state == get_led(led_states, desc.handle, FALSE)
                write == set_led(led_states, desc.handle, ~current_state, active_low)
            IN  LedOutcome(IF write.ok THEN 1 ELSE 0, write.states,
                           led.log \o
                           << <<"get_led", desc.handle, FALSE, current_state>>,
                              <<"set_led", desc.handle, ~current_state, active_low,
                                write.ok>> >>)

\* mutant: the LED is switched on whatever it was
sys_led_toggle_on(sys_id, arg0, arg1, arg2) ==
  IF led_hal = NULL THEN LedOutcome(0, led_states, <<>>)
  ELSE LET led == find_led(arg0, arg1, arg2) IN
       IF led.dev = 0 THEN LedOutcome(0, led_states, led.log)
       ELSE WriteLed(led, TRUE)

sys_led_toggle(sys_id, arg0, arg1, arg2) ==
  IF led_hal = NULL THEN LedOutcome(0, led_states, <<>>)
  ELSE LET led == find_led(arg0, arg1, arg2) IN
       IF led.dev = 0 THEN LedOutcome(0, led_states, led.log)
       ELSE LET desc == Deref(led.dev)
                active_low == FlagSet(desc.flags, V4DEV_FLAG_ACTIVE_LOW)
                current_state == get_led(led_states, desc.handle, active_low)
                write == set_led(led_states, desc.handle, ~current_state, active_low)
            IN  LedOutcome(IF write.ok THEN 1 ELSE 0, write.states,
                           led.log \o
                           << <<"get_led", desc.handle, active_low, current_state>>,
                              <<"set_led", desc.handle, ~current_state, active_low,
                                write.ok>> >>)

\* mutant: index in the low 8 bits, state in bit 8
sys_led_set_lowbyte(sys_id, arg0, arg1, arg2) ==
  IF led_hal = NULL THEN LedOutcome(0, led_states, <<>>)
  ELSE LET index == arg2 % 256
           state == (arg2 \div 256) % 2 = 1
           led == find_led(arg0, arg1, index)
       IN  IF led.dev = 0 THEN LedOutcome(0, led_states, led.log)
           ELSE WriteLed(led, state)

sys_led_set(sys_id, arg0, arg1, arg2) ==
  IF led_hal = NULL THEN LedOutcome(0, led_states, <<>>)
  ELSE LET index == (arg2 \div 65536) % 256
           state == (arg2 % 65536) # 0
           led == find_led(arg0, arg1, index)
       IN  IF led.dev = 0 THEN LedOutcome(0, led_states, led.log)
           ELSE WriteLed(led, state)

\* mutant: a device that is not found is reported as -1
sys_led_get_notfound(sys_id, arg0, arg1, arg2) ==
  IF led_hal = NULL THEN LedOutcome(0, led_states, <<>>)
  ELSE LET led == find_led(arg0, arg1, arg2) IN
       IF led.dev = 0 THEN LedOutcome(-1, led_states, led.log)
       ELSE LET desc == Deref(led.dev)
                active_low == FlagSet(desc.flags, V4DEV_FLAG_ACTIVE_LOW)
                state == get_led(led_states, desc.handle, active_low)
            IN  LedOutcome(IF state THEN 1 ELSE 0, led_states,
                           led.log \o << <<"get_led", desc.handle, active_low, state>> >>)

\* mutant: the physical level is returned as it is
sys_led_get_physical(sys_id, arg0, arg1, arg2) ==
  IF led_hal = NULL THEN LedOutcome(0, led_states, <<>>)
  ELSE LET led == find_led(arg0, arg1, arg2) IN
       IF led.dev = 0 THEN LedOutcome(0, led_states, led.log)
       ELSE LET desc == Deref(led.dev)
                state == get_led(led_states, desc.handle, FALSE)
            IN  LedOutcome(IF state THEN 1 ELSE 0, led_states,
                           led.log \o << <<"get_led", desc.handle, FALSE, state>> >>)

\* mutant: the driver pointer is not checked
sys_led_get_nohal(sys_id, arg0, arg1, arg2) ==
  LET led == find_led(arg0, arg1, arg2) IN
  IF led.dev = 0 THEN LedOutcome(0, led_states, led.log)
  ELSE LET desc == Deref(led.dev)
           active_low == FlagSet(desc.flags, V4DEV_FLAG_ACTIVE_LOW)
           state == get_led(led_states, desc.handle, active_low)
       IN  LedOutcome(IF state THEN 1 ELSE 0, led_states,
                      led.log \o << <<"get_led", desc.handle, active_low, state>> >>)

sys_led_get(sys_id, arg0, arg1, arg2) ==
  IF led_hal = NULL THEN LedOutcome(0, led_states, <<>>)
  ELSE LET led == find_led(arg0, arg1, arg2) IN
       IF led.dev = 0 THEN LedOutcome(0, led_states, led.log)
       ELSE LET desc == Deref(led.dev)
                active_low == FlagSet(desc.flags, V4DEV_FLAG_ACTIVE_LOW)
                state == get_led(led_states, desc.handle, active_low)
            IN  LedOutcome(IF state THEN 1 ELSE 0, led_states,
                           led.log \o << <<"get_led", desc.handle, active_low, state>> >>)

\* mutant: sys_led_get registered under the opcode of SET
LedRegistrations_getasset ==
  << <<V4SYS_LED_ON, "sys_led_on">>, <<V4SYS_LED_OFF, "sys_led_off">>,
     <<V4SYS_LED_TOGGLE, "sys_led_toggle">>, <<V4SYS_LED_SET, "sys_led_set">>,
     <<V4SYS_LED_SET, "sys_led_get">> >>

\* the five registrations of register_led_sys_handlers, in order
LedRegistrations ==
  << <<V4SYS_LED_ON, "sys_led_on">>, <<V4SYS_LED_OFF, "sys_led_off">>,
     <<V4SYS_LED_TOGGLE, "sys_led_toggle">>, <<V4SYS_LED_SET, "sys_led_set">>,
     <<V4SYS_LED_GET, "sys_led_get">> >>

----------------------------------------------------------------------------
(* tests/test_sys_handlers.cpp: the mock handlers, by what they return *)

CallHandler(handler, sys_id, arg0, arg1, arg2) ==
  CASE handler = "mock_led_on" -> 1
    [] handler = "mock_led_off" -> 0
    [] handler = "mock_echo_args" -> arg0

\* handlers that, while they run, call unregister_sys_handler(sys_id),
\* register_sys_handler(sys_id, mock_led_on) or clear_sys_handlers()
ReentrantHandlers == {"handler_unregisters_self", "handler_replaces_self", "handler_clears"}

\* what each of them returns
CallReentrant(handler, sys_id, arg0, arg1, arg2) ==
  CASE handler = "handler_unregisters_self" -> 2
    [] handler = "handler_replaces_self" -> 3
    [] handler = "handler_clears" -> 4

\* handler(sys_id, arg0, arg1, arg2), for every function a SysHandler can point at
RunHandler(handler, sys_id, arg0, arg1, arg2) ==
  CASE handler = "sys_led_on" -> sys_led_on(sys_id, arg0, arg1, arg2)
    [] handler = "sys_led_off" -> sys_led_off(sys_id, arg0, arg1, arg2)
    [] handler = "sys_led_toggle" -> sys_led_toggle(sys_id, arg0, arg1, arg2)
    [] handler = "sys_led_set" -> sys_led_set(sys_id, arg0, arg1, arg2)
    [] handler = "sys_led_get" -> sys_led_get(sys_id, arg0, arg1, arg2)
    [] handler \in ReentrantHandlers ->
         LedOutcome(CallReentrant(handler, sys_id, arg0, arg1, arg2), led_states, <<>>)
    [] OTHER -> LedOutcome(CallHandler(handler, sys_id, arg0, arg1, arg2), led_states, <<>>)

----------------------------------------------------------------------------
(* sys_handlers.cpp *)

\* a function's result together with the registry it leaves and the handler
\* calls it made, each call <<handler, sys_id, arg0, arg1, arg2>>; the driver
\* is as it was unless a handler ran
Outcome(ret, registry, calls) ==
  [ret |-> ret, registry |-> registry, calls |-> calls,
   led_states |-> led_states, led_log |-> <<>>]

EmptyRegistry == [k \in {} |-> NULL]

\* mutant: insert() in place of operator[], which keeps an existing mapping
MapPut_insert(m, k, v) == [x \in DOMAIN m \cup {k} |-> IF x \in DOMAIN m THEN m[x] ELSE v]

\* handler_registry[sys_id] = handler
MapPut(m, k, v) == [x \in DOMAIN m \cup {k} |-> IF x = k THEN v ELSE m[x]]

\* mutant: the erase is lost
MapErase_none(m, k) == m

\* handler_registry.erase(sys_id)
MapErase(m, k) == [x \in DOMAIN m \ {k} |-> m[x]]

\* handler_registry.find(sys_id): it->second, or nullptr at end()
MapFind(m, k) == IF k \in DOMAIN m THEN m[k] ELSE NULL

\* handler_registry.size()
MapSize(m) == Cardinality(DOMAIN m)

\* mutant: no null check
register_sys_handler_nocheck(sys_id, handler) ==
  Outcome(TRUE, MapPut(handler_registry, sys_id, handler), <<>>)

register_sys_handler(sys_id, handler) ==
  IF handler = NULL
    THEN Outcome(FALSE, handler_registry, <<>>)
    ELSE Outcome(TRUE, MapPut(handler_registry, sys_id, handler), <<>>)

\* mutant: the mapping is set to nullptr and stays in the map
unregister_sys_handler_null(sys_id) ==
  Outcome(NULL, MapPut(handler_registry, sys_id, NULL), <<>>)

\* mutant: erases every mapping
unregister_sys_handler_all(sys_id) ==
  Outcome(NULL, EmptyRegistry, <<>>)

unregister_sys_handler(sys_id) ==
  Outcome(NULL, MapErase(handler_registry, sys_id), <<>>)

get_sys_handler(sys_id) == MapFind(handler_registry, sys_id)

\* mutant: the clear resets the driver's levels as well
clear_sys_handlers_leds ==
  [Outcome(NULL, EmptyRegistry, <<>>) EXCEPT !.led_states = [h \in Handles |-> FALSE]]

\* mutant: the clear is lost
clear_sys_handlers_none == Outcome(NULL, handler_registry, <<>>)

clear_sys_handlers == Outcome(NULL, EmptyRegistry, <<>>)

\* the registry a handler leaves when it returns: the handlers that call
\* back into the registry leave what the function they call leaves
RegistryLeft(handler, sys_id) ==
  CASE handler = "handler_unregisters_self" -> unregister_sys_handler(sys_id).registry
    [] handler = "handler_replaces_self" -> register_sys_handler(sys_id, "mock_led_on").registry
    [] handler = "handler_clears" -> clear_sys_handlers.registry
    [] OTHER -> handler_registry

\* mutant: the mapping is looked up again after the call, and a handler that
\* is gone by then is reported as missing
invoke_sys_handler_recheck(sys_id, arg0, arg1, arg2) ==
  LET handler == get_sys_handler(sys_id) IN
  IF handler = NULL
    THEN Outcome(-1, handler_registry, <<>>)
    ELSE LET run == RunHandler(handler, sys_id, arg0, arg1, arg2)
             left == RegistryLeft(handler, sys_id)
         IN  [Outcome(IF MapFind(left, sys_id) = NULL THEN -1 ELSE run.ret, left,
                      << <<handler, sys_id, arg0, arg1, arg2>> >>)
                EXCEPT !.led_states = run.led_states, !.led_log = run.led_log]

\* mutant: operator[] in place of find(), which makes an entry for a missing key
invoke_sys_handler_creates(sys_id, arg0, arg1, arg2) ==
  LET handler == get_sys_handler(sys_id) IN
  IF handler = NULL
    THEN Outcome(-1, MapPut(handler_registry, sys_id, NULL), <<>>)
    ELSE LET run == RunHandler(handler, sys_id, arg0, arg1, arg2) IN
         [Outcome(run.ret, handler_registry, << <<handler, sys_id, arg0, arg1, arg2>> >>)
            EXCEPT !.led_states = run.led_states, !.led_log = run.led_log]

\* mutant: a missing handler reported as 0
invoke_sys_handler_zero(sys_id, arg0, arg1, arg2) ==
  LET handler == get_sys_handler(sys_id) IN
  IF handler = NULL
    THEN Outcome(0, handler_registry, <<>>)
    ELSE Outcome(CallHandler(handler, sys_id, arg0, arg1, arg2), handler_registry,
                 << <<handler, sys_id, arg0, arg1, arg2>> >>)

\* mutant: arg0 and arg1 passed in the wrong order
invoke_sys_handler_swapped(sys_id, arg0, arg1, arg2) ==
  LET handler == get_sys_handler(sys_id) IN
  IF handler = NULL
    THEN Outcome(-1, handler_registry, <<>>)
    ELSE Outcome(CallHandler(handler, sys_id, arg1, arg0, arg2), handler_registry,
                 << <<handler, sys_id, arg1, arg0, arg2>> >>)

invoke_sys_handler(sys_id, arg0, arg1, arg2) ==
  LET handler == get_sys_handler(sys_id) IN
  IF handler = NULL
    THEN Outcome(-1, handler_registry, <<>>)
    ELSE LET run == RunHandler(handler, sys_id, arg0, arg1, arg2) IN
         [Outcome(run.ret, RegistryLeft(handler, sys_id),
                  << <<handler, sys_id, arg0, arg1, arg2>> >>)
            EXCEPT !.led_states = run.led_states, !.led_log = run.led_log]

get_sys_handler_count == MapSize(handler_registry)

\* a caller runs one registry function: its outcome becomes the state
RegistryStep(op, args, out) ==
  /\ handler_registry' = out.registry
  /\ last' = Call(op, args, out.ret, out.calls)
  /\ registry_before' = handler_registry
  /\ ever_registered' = ever_registered \cup (DOMAIN out.registry)
  /\ cleared_size' = IF op = "clear_sys_handlers" THEN MapSize(handler_registry)
                     ELSE cleared_size
  /\ led_states' = out.led_states
  /\ led_log' = out.led_log
  /\ led_before' = led_states
  /\ toggled_from' =
       IF /\ out.calls # <<>>
          /\ out.calls[1][1] = "sys_led_toggle"
          /\ out.ret = 1
          /\ last = Call(op, args, out.ret, out.calls)
         THEN <<led_before>>
         ELSE <<>>
  /\ UNCHANGED <<provider_, tables, installed, nulled_from, led_hal, hal_ok>>

RegistryCall(op, args, out) ==
  /\ RegistryStep(op, args, out)
  /\ UNCHANGED <<unconfigured_call, running>>

\* the same call, remembering an LED handler that ran with no driver or no
\* provider installed until the registry is next changed
RegistryCallTracked(op, args, out) ==
  /\ RegistryStep(op, args, out)
  /\ unconfigured_call' =
       IF /\ out.calls # <<>>
          /\ out.calls[1][1] \in LedHandlers
          /\ (led_hal = NULL \/ provider_ = NULL)
         THEN args
         ELSE IF out.registry # handler_registry THEN NULL ELSE unconfigured_call
  /\ UNCHANGED running

Register(sys_id, handler) ==
  RegistryCall("register_sys_handler", <<sys_id, handler>>,
               register_sys_handler(sys_id, handler))

Unregister(sys_id) ==
  RegistryCall("unregister_sys_handler", <<sys_id>>, unregister_sys_handler(sys_id))

GetSysHandler(sys_id) ==
  RegistryCall("get_sys_handler", <<sys_id>>,
               Outcome(get_sys_handler(sys_id), handler_registry, <<>>))

Invoke(sys_id, arg0, arg1, arg2) ==
  RegistryCall("invoke_sys_handler", <<sys_id, arg0, arg1, arg2>>,
               invoke_sys_handler(sys_id, arg0, arg1, arg2))

Clear == RegistryCall("clear_sys_handlers", <<>>, clear_sys_handlers)

\* sys_led.cpp: register_sys_handler(V4SYS_LED_ON, sys_led_on); ... one after another
RECURSIVE RegisterAll(_, _, _)
RegisterAll(registry, registrations, i) ==
  IF i > Len(registrations) THEN registry
  ELSE RegisterAll(MapPut(registry, registrations[i][1], registrations[i][2]),
                   registrations, i + 1)

register_led_sys_handlers ==
  Outcome(NULL, RegisterAll(handler_registry, LedRegistrations, 1), <<>>)

RegisterLedSysHandlers ==
  RegistryCall("register_led_sys_handlers", <<>>, register_led_sys_handlers)

InvokeTracked(sys_id, arg0, arg1, arg2) ==
  RegistryCallTracked("invoke_sys_handler", <<sys_id, arg0, arg1, arg2>>,
                      invoke_sys_handler(sys_id, arg0, arg1, arg2))

ClearTracked == RegistryCallTracked("clear_sys_handlers", <<>>, clear_sys_handlers)

RegisterLedSysHandlersTracked ==
  RegistryCallTracked("register_led_sys_handlers", <<>>, register_led_sys_handlers)

SetLedHal(hal) ==
  /\ led_hal' = set_led_hal(hal)
  /\ last' = Call("set_led_hal", <<hal>>, NULL, <<>>)
  /\ NoRegistryCall
  /\ UNCHANGED running
  /\ NoLedCall
  /\ UNCHANGED <<provider_, tables, installed, nulled_from>>

\* the hardware starts to fail, or works again
DriverBecomes(ok) ==
  /\ hal_ok' = ok
  /\ last' = Call("driver", <<ok>>, NULL, <<>>)
  /\ NoRegistryCall
  /\ UNCHANGED running
  /\ led_before' = led_states
  /\ led_log' = <<>>
  /\ toggled_from' = <<>>
  /\ UNCHANGED <<provider_, tables, installed, nulled_from, led_hal, led_states>>

GetSysHandlerCount ==
  RegistryCall("get_sys_handler_count", <<>>,
               Outcome(get_sys_handler_count, handler_registry, <<>>))

----------------------------------------------------------------------------
(* ddt.cpp and sys_handlers.cpp statement by statement: a call is entered, *)
(* runs one loop iteration or one statement per step, and returns.         *)

\* the call is entered with its arguments; nothing else has happened yet
Enter(pc, op, args) ==
  /\ running.pc = "idle"
  /\ running' = [Idle EXCEPT !.pc = pc, !.op = op, !.args = args, !.i = 1]
  /\ UNCHANGED <<handler_registry, registry_before, ever_registered, cleared_size,
                 provider_, tables, installed, nulled_from, led_hal, led_states, hal_ok,
                 unconfigured_call, toggled_from, led_before, led_log, last>>

\* one more iteration of for (const auto& dev : devices), dev being devices[i]
Iterate(count) ==
  /\ running' = [running EXCEPT !.i = running.i + 1, !.count = count,
                                !.visited = Append(running.visited, running.i)]
  /\ UNCHANGED <<handler_registry, registry_before, ever_registered, cleared_size,
                 provider_, tables, installed, nulled_from, led_hal, led_states, hal_ok,
                 unconfigured_call, toggled_from, led_before, led_log, last>>

\* a function of ddt.cpp returns ret, having looked at the descriptors in visited
ReturnDdt(ret, visited) ==
  /\ running' = [running EXCEPT !.pc = "idle", !.visited = visited]
  /\ last' = Call(running.op, running.args, ret, <<>>)
  /\ NoRegistryCall
  /\ NoLedCall
  /\ UNCHANGED <<provider_, tables, installed, nulled_from, led_hal>>

\* a function of sys_handlers.cpp returns
ReturnRegistry(out, lookups, handler_calls) ==
  /\ running' = [running EXCEPT !.pc = "idle", !.lookups = lookups,
                                !.handler_calls = handler_calls]
  /\ RegistryStep(running.op, running.args, out)
  /\ UNCHANGED unconfigured_call

\* the range-for is past the last descriptor
ScanDone(i, devices) == i > Len(devices)

\* mutant: the comparison never succeeds
DescriptorMatches_never(dev, kind, role, index) == FALSE

\* dev.kind == kind && dev.role == role && dev.index == index
DescriptorMatches(dev, kind, role, index) ==
  dev.kind = kind /\ dev.role = role /\ dev.index = index

EnterFind(kind, role, index) == Enter("find", "find_device", <<kind, role, index>>)

FindStep ==
  /\ running.pc = "find"
  /\ IF provider_ = NULL THEN ReturnDdt(0, running.visited)
     ELSE LET devices == get_devices(provider_) IN
          IF ScanDone(running.i, devices) THEN ReturnDdt(0, running.visited)
          ELSE IF DescriptorMatches(devices[running.i], running.args[1], running.args[2],
                                    running.args[3])
                 THEN ReturnDdt(running.i, Append(running.visited, running.i))
                 ELSE Iterate(running.count)

EnterCount(kind) == Enter("count", "count_devices", <<kind>>)

CountStep ==
  /\ running.pc = "count"
  /\ IF provider_ = NULL THEN ReturnDdt(0, running.visited)
     ELSE LET devices == get_devices(provider_) IN
          IF ScanDone(running.i, devices) THEN ReturnDdt(running.count, running.visited)
          ELSE Iterate(IF devices[running.i].kind = running.args[1]
                         THEN running.count + 1 ELSE running.count)

EnterLookup(sys_id) == Enter("lookup", "get_sys_handler", <<sys_id>>)

LookupStep ==
  /\ running.pc = "lookup"
  /\ ReturnRegistry(Outcome(get_sys_handler(running.args[1]), handler_registry, <<>>), 1, 0)

EnterInvoke(sys_id, arg0, arg1, arg2) ==
  Enter("invoke", "invoke_sys_handler", <<sys_id, arg0, arg1, arg2>>)

\* SysHandler handler = get_sys_handler(sys_id); if (!handler) return -1;
InvokeLookupStep ==
  /\ running.pc = "invoke"
  /\ LET handler == get_sys_handler(running.args[1]) IN
     IF handler = NULL
       THEN ReturnRegistry(Outcome(-1, handler_registry, <<>>), 1, 0)
       ELSE /\ running' = [running EXCEPT !.pc = "call", !.handler = handler, !.lookups = 1]
            /\ UNCHANGED <<handler_registry, registry_before, ever_registered, cleared_size,
                           provider_, tables, installed, nulled_from, led_hal, led_states,
                           hal_ok, unconfigured_call, toggled_from, led_before, led_log,
                           last>>

\* return handler(sys_id, arg0, arg1, arg2);
InvokeCallStep ==
  /\ running.pc = "call"
  /\ LET run == RunHandler(running.handler, running.args[1], running.args[2],
                           running.args[3], running.args[4])
     IN  ReturnRegistry([Outcome(run.ret, RegistryLeft(running.handler, running.args[1]),
                                 << <<running.handler>> \o running.args >>)
                           EXCEPT !.led_states = run.led_states, !.led_log = run.led_log],
                        running.lookups, running.handler_calls + 1)

\* the call in progress runs on
Step == FindStep \/ CountStep \/ LookupStep \/ InvokeLookupStep \/ InvokeCallStep

----------------------------------------------------------------------------
(* Specifications *)

NoCall == Call("none", <<>>, NULL, <<>>)

\* the registry on its own: the table is the tests' fixed one
InitRegistry ==
  /\ handler_registry = EmptyRegistry
  /\ registry_before = EmptyRegistry
  /\ ever_registered = {}
  /\ cleared_size = -1
  /\ provider_ = NULL
  /\ installed = NULL
  /\ nulled_from = NULL
  /\ led_hal = NULL
  /\ unconfigured_call = NULL
  /\ toggled_from = <<>>
  /\ running = Idle
  /\ led_states = [h \in Handles |-> FALSE]
  /\ hal_ok = TRUE
  /\ led_before = [h \in Handles |-> FALSE]
  /\ led_log = <<>>
  /\ tables = [p \in ProviderIds |-> MockDevices]
  /\ last = NoCall

NextRegistry ==
  \/ \E sys_id \in SysIds, handler \in Handlers \cup {NULL} :
       Register(sys_id, handler)
  \/ \E sys_id \in SysIds : Unregister(sys_id)
  \/ \E sys_id \in SysIds : GetSysHandler(sys_id)
  \/ \E sys_id \in SysIds, arg0 \in ArgValues, arg1 \in ArgValues, arg2 \in ArgValues :
       Invoke(sys_id, arg0, arg1, arg2)
  \/ Clear
  \/ GetSysHandlerCount

SpecRegistry == InitRegistry /\ [][NextRegistry]_vars

\* the device table on its own: provider p1 returns any table up to
\* MaxDevices descriptors, provider p2 the tests' table
InitDdt ==
  /\ handler_registry = EmptyRegistry
  /\ registry_before = EmptyRegistry
  /\ ever_registered = {}
  /\ cleared_size = -1
  /\ provider_ = NULL
  /\ installed = NULL
  /\ nulled_from = NULL
  /\ led_hal = NULL
  /\ unconfigured_call = NULL
  /\ toggled_from = <<>>
  /\ running = Idle
  /\ led_states = [h \in Handles |-> FALSE]
  /\ hal_ok = TRUE
  /\ led_before = [h \in Handles |-> FALSE]
  /\ led_log = <<>>
  /\ \E t \in TablesUpTo(MaxDevices) : tables = [p1 |-> t, p2 |-> MockDevices]
  /\ last = NoCall

NextDdt ==
  \/ \E provider \in ProviderIds \cup {NULL} : SetProvider(provider)
  \/ \E kind \in QueryKinds, role \in QueryRoles, index \in QueryIndexes :
       FindDevice(kind, role, index)
  \/ \E kind \in QueryKinds, role \in QueryRoles : FindDefaultDevice(kind, role)
  \/ \E kind \in QueryKinds : CountDevices(kind)
  \/ GetAllDevices

SpecDdt == InitDdt /\ [][NextDdt]_vars

\* the device table over a sequence of installs: provider p1 returns any
\* table up to MaxInstallDevices descriptors, provider p2 the tests' table
InitInstall ==
  /\ handler_registry = EmptyRegistry
  /\ registry_before = EmptyRegistry
  /\ ever_registered = {}
  /\ cleared_size = -1
  /\ provider_ = NULL
  /\ installed = NULL
  /\ nulled_from = NULL
  /\ led_hal = NULL
  /\ unconfigured_call = NULL
  /\ toggled_from = <<>>
  /\ running = Idle
  /\ led_states = [h \in Handles |-> FALSE]
  /\ hal_ok = TRUE
  /\ led_before = [h \in Handles |-> FALSE]
  /\ led_log = <<>>
  /\ \E t \in TablesUpTo(MaxInstallDevices) : tables = [p1 |-> t, p2 |-> MockDevices]
  /\ last = NoCall

NextInstall ==
  \/ \E provider \in ProviderIds \cup {NULL} : SetProviderTracked(provider)
  \/ \E kind \in QueryKinds, role \in QueryRoles, index \in QueryIndexes :
       FindDevice(kind, role, index)
  \/ \E kind \in QueryKinds, role \in QueryRoles : FindDefaultDevice(kind, role)
  \/ \E kind \in QueryKinds : CountDevices(kind)
  \/ GetAllDevices

SpecInstall == InitInstall /\ [][NextInstall]_vars

\* SYS ids and arguments the callers of the LED handlers use: both kinds and
\* roles, and for arg2 plain indexes (0, 1, 99), a value past uint8 (256), and
\* packed index and state (1 << 16, (1 << 16) | 1, the latter with bit 24 set)
\* and a negative value
LedSysIds == {V4SYS_LED_ON, V4SYS_LED_OFF, V4SYS_LED_TOGGLE, V4SYS_LED_SET, V4SYS_LED_GET}
LedArg2 == {0, 1, 99, 256, -256, 65536, 65537, 16842753}

\* the LED handlers behind the registry: provider p1 returns the table of
\* tests/test_ddt.cpp, provider p2 the table of tests/test_sys_led.cpp
InitLed ==
  /\ handler_registry = EmptyRegistry
  /\ registry_before = EmptyRegistry
  /\ ever_registered = {}
  /\ cleared_size = -1
  /\ provider_ = NULL
  /\ installed = NULL
  /\ nulled_from = NULL
  /\ led_hal = NULL
  /\ unconfigured_call = NULL
  /\ toggled_from = <<>>
  /\ running = Idle
  /\ led_states = [h \in Handles |-> FALSE]
  /\ hal_ok = TRUE
  /\ led_before = [h \in Handles |-> FALSE]
  /\ led_log = <<>>
  /\ tables = [p1 |-> DdtTestDevices, p2 |-> MockDevices]
  /\ last = NoCall

NextLed ==
  \/ RegisterLedSysHandlers
  \/ \E provider \in {NULL, "p1"} : SetProvider(provider)
  \/ \E hal \in {NULL, "g_hal"} : SetLedHal(hal)
  \/ \E ok \in BOOLEAN : DriverBecomes(ok)
  \/ \E sys_id \in LedSysIds, arg0 \in Kinds, arg1 \in Roles, arg2 \in LedArg2 :
       Invoke(sys_id, arg0, arg1, arg2)

SpecLed == InitLed /\ [][NextLed]_vars

\* drivers and providers removed and installed again under registered handlers
ReinstallArg2 == {0, 99, 65537}

NextReinstall ==
  \/ RegisterLedSysHandlersTracked
  \/ ClearTracked
  \/ \E provider \in {NULL, "p1"} : SetProvider(provider)
  \/ \E hal \in {NULL, "g_hal"} : SetLedHal(hal)
  \/ \E sys_id \in LedSysIds, arg1 \in Roles, arg2 \in ReinstallArg2 :
       InvokeTracked(sys_id, V4DEV_LED, arg1, arg2)

SpecReinstall == InitLed /\ [][NextReinstall]_vars

\* the registry, the device table and the LED driver side by side: test
\* handlers and the LED handlers registered over one another
ComposeSysIds == {V4SYS_LED_ON, V4SYS_BUTTON_READ}

NextCompose ==
  \/ \E sys_id \in ComposeSysIds, handler \in {"mock_led_on", NULL} :
       Register(sys_id, handler)
  \/ \E sys_id \in ComposeSysIds : Unregister(sys_id)
  \/ Clear
  \/ RegisterLedSysHandlers
  \/ GetSysHandlerCount
  \/ \E provider \in {NULL, "p1"} : SetProvider(provider)
  \/ \E hal \in {NULL, "g_hal"} : SetLedHal(hal)
  \/ \E sys_id \in {V4SYS_LED_ON, V4SYS_LED_OFF} :
       Invoke(sys_id, V4DEV_LED, V4ROLE_STATUS, 0)

SpecCompose == InitLed /\ [][NextCompose]_vars

\* tables that name the status LED twice: pin 7 or 8, with flag bits 0 and 1
\* set or clear
StatusLeds ==
  {[kind |-> V4DEV_LED, role |-> V4ROLE_STATUS, index |-> 0, flags |-> flags, handle |-> handle] :
     flags \in {0, 1, 2, 3}, handle \in {7, 8}}

DuplicateTables == {<<first, second>> : first \in StatusLeds, second \in StatusLeds}

InitDuplicates ==
  /\ handler_registry = EmptyRegistry
  /\ registry_before = EmptyRegistry
  /\ ever_registered = {}
  /\ cleared_size = -1
  /\ provider_ = NULL
  /\ installed = NULL
  /\ nulled_from = NULL
  /\ led_hal = NULL
  /\ unconfigured_call = NULL
  /\ toggled_from = <<>>
  /\ running = Idle
  /\ led_states = [h \in Handles |-> FALSE]
  /\ hal_ok = TRUE
  /\ led_before = [h \in Handles |-> FALSE]
  /\ led_log = <<>>
  /\ \E devices \in DuplicateTables : tables = [p1 |-> devices, p2 |-> MockDevices]
  /\ last = NoCall

NextDuplicates ==
  \/ RegisterLedSysHandlers
  \/ \E provider \in {NULL, "p1"} : SetProvider(provider)
  \/ \E hal \in {NULL, "g_hal"} : SetLedHal(hal)
  \/ FindDevice(V4DEV_LED, V4ROLE_STATUS, 0)
  \/ CountDevices(V4DEV_LED)
  \/ \E sys_id \in LedSysIds, arg2 \in {0, 1} :
       Invoke(sys_id, V4DEV_LED, V4ROLE_STATUS, arg2)

SpecDuplicates == InitDuplicates /\ [][NextDuplicates]_vars

\* handlers that change the registry while invoke_sys_handler runs them
ReentrantSysIds == {V4SYS_LED_ON, V4SYS_LED_OFF}

NextReentrant ==
  \/ \E sys_id \in ReentrantSysIds, handler \in ReentrantHandlers \cup {"mock_led_off"} :
       Register(sys_id, handler)
  \/ \E sys_id \in ReentrantSysIds : GetSysHandler(sys_id)
  \/ \E sys_id \in ReentrantSysIds, arg0 \in ArgValues :
       Invoke(sys_id, arg0, 0, 0)
  \/ GetSysHandlerCount

SpecReentrant == InitRegistry /\ [][NextReentrant]_vars

\* calls entered one at a time and run step by step; installs and
\* registrations happen between calls
StepSysIds == {V4SYS_LED_ON, V4SYS_LED_GET, V4SYS_BUTTON_READ}

NextSteps ==
  \/ running.pc = "idle" /\ RegisterLedSysHandlers
  \/ running.pc = "idle" /\ (\E provider \in {NULL, "p1"} : SetProvider(provider))
  \/ running.pc = "idle" /\ (\E hal \in {NULL, "g_hal"} : SetLedHal(hal))
  \/ \E kind \in QueryKinds, role \in QueryRoles, index \in QueryIndexes :
       EnterFind(kind, role, index)
  \/ \E kind \in QueryKinds \cup {V4DEV_TIMER} : EnterCount(kind)
  \/ \E sys_id \in StepSysIds : EnterLookup(sys_id)
  \/ \E sys_id \in StepSysIds, arg1 \in Roles, arg2 \in {0, 1} :
       EnterInvoke(sys_id, V4DEV_LED, arg1, arg2)
  \/ FindStep
  \/ CountStep
  \/ LookupStep
  \/ InvokeLookupStep
  \/ InvokeCallStep

SpecSteps == InitLed /\ [][NextSteps]_vars

\* a call that was entered keeps running: the code is synchronous
SpecStepsLive == SpecSteps /\ WF_vars(Step)

----------------------------------------------------------------------------
(* Properties of the handler registry (SpecRegistry) *)

\* what get_sys_handler_count() and get_sys_handler(id) returned before the last call
CountBefore == MapSize(registry_before)
LookupBefore(sys_id) == MapFind(registry_before, sys_id)

\* every opcode but sys_id has the mapping it had before the last call
OthersUnchanged(sys_id) ==
  \A other \in SysIds \ {sys_id} : get_sys_handler(other) = LookupBefore(other)

\* nothing of the registry a caller can observe changed in the last call
RegistryUnchanged ==
  /\ get_sys_handler_count = CountBefore
  /\ \A sys_id \in SysIds : get_sys_handler(sys_id) = LookupBefore(sys_id)

\* invoke_sys_handler(sys_id, ...) in this state returns -1 and calls nothing
InvokeMisses(sys_id) ==
  \A arg0 \in ArgValues, arg1 \in ArgValues, arg2 \in ArgValues :
    LET out == invoke_sys_handler(sys_id, arg0, arg1, arg2) IN
    out.ret = -1 /\ out.calls = <<>>

\* invoke_sys_handler(sys_id, ...) in this state calls handler, and nothing else
InvokeCalls(sys_id, handler) ==
  \A arg0 \in ArgValues, arg1 \in ArgValues, arg2 \in ArgValues :
    invoke_sys_handler(sys_id, arg0, arg1, arg2).calls
      = << <<handler, sys_id, arg0, arg1, arg2>> >>

\* C1: invoke_sys_handler on a SYS id that has no mapping (never registered,
\* unregistered or cleared) returns exactly -1 and calls no handler.
C1_InvokeUnregistered ==
  (last.op = "invoke_sys_handler" /\ last.args[1] \notin DOMAIN registry_before)
    => (last.ret = -1 /\ last.calls = <<>>)

\* an invoke of a SYS id that was registered once and no longer is
C1_Witness ==
  /\ last.op = "invoke_sys_handler"
  /\ last.args[1] \in ever_registered
  /\ last.args[1] \notin DOMAIN handler_registry
  /\ last.ret = -1

\* C2: register_sys_handler with a null handler returns false and leaves the
\* count and the lookup result of every SYS id as they were.
C2_RegisterNull ==
  (last.op = "register_sys_handler" /\ last.args[2] = NULL)
    => (last.ret = FALSE /\ RegistryUnchanged /\ handler_registry = registry_before)

\* a null registration under a SYS id that holds a handler, which it keeps
C2_Witness ==
  /\ last.op = "register_sys_handler"
  /\ last.args[2] = NULL
  /\ last.ret = FALSE
  /\ get_sys_handler(last.args[1]) \in Handlers

\* C3: registering a non-null handler under a SYS id that has a mapping returns
\* true, keeps the count, makes that handler the one that get_sys_handler
\* returns and invoke_sys_handler calls, and leaves the other SYS ids alone.
C3_RegisterReplaces ==
  (/\ last.op = "register_sys_handler"
   /\ last.args[2] # NULL
   /\ last.args[1] \in DOMAIN registry_before)
    => /\ last.ret = TRUE
       /\ get_sys_handler_count = CountBefore
       /\ get_sys_handler(last.args[1]) = last.args[2]
       /\ InvokeCalls(last.args[1], last.args[2])
       /\ OthersUnchanged(last.args[1])

\* a registration that replaced a different handler, beside another mapping
C3_Witness ==
  /\ last.op = "register_sys_handler"
  /\ last.ret = TRUE
  /\ last.args[1] \in DOMAIN registry_before
  /\ registry_before[last.args[1]] # last.args[2]
  /\ get_sys_handler(last.args[1]) = last.args[2]
  /\ get_sys_handler_count = 2

\* C4: invoke_sys_handler on a registered SYS id calls the handler stored for
\* it, once, with (sys_id, arg0, arg1, arg2) as given, and returns what that
\* handler returns.
C4_InvokeCallsStored ==
  (last.op = "invoke_sys_handler" /\ last.args[1] \in DOMAIN registry_before)
    => LET handler == registry_before[last.args[1]] IN
       /\ last.calls = << <<handler>> \o last.args >>
       /\ last.ret = CallHandler(handler, last.args[1], last.args[2], last.args[3],
                                 last.args[4])

\* mock_echo_args invoked with distinct arguments hands arg0 back
C4_Witness ==
  /\ last.op = "invoke_sys_handler"
  /\ Len(last.calls) = 1
  /\ last.calls[1][1] = "mock_echo_args"
  /\ last.args[2] # last.args[3]
  /\ last.ret = last.args[2]

\* C5: unregister_sys_handler on a registered SYS id removes that mapping and
\* no other: lookup gives none, invoke gives -1, the count is one less.
C5_UnregisterRemoves ==
  (last.op = "unregister_sys_handler" /\ last.args[1] \in DOMAIN registry_before)
    => /\ get_sys_handler(last.args[1]) = NULL
       /\ InvokeMisses(last.args[1])
       /\ get_sys_handler_count = CountBefore - 1
       /\ OthersUnchanged(last.args[1])

\* one of three mappings removed
C5_Witness ==
  /\ last.op = "unregister_sys_handler"
  /\ last.args[1] \in DOMAIN registry_before
  /\ CountBefore = 3
  /\ get_sys_handler_count = 2

\* C6: unregister_sys_handler on a SYS id that has no mapping changes neither
\* the count nor the lookup result of any SYS id.
C6_UnregisterAbsent ==
  (last.op = "unregister_sys_handler" /\ last.args[1] \notin DOMAIN registry_before)
    => RegistryUnchanged

\* a second removal of a SYS id, other mappings present
C6_Witness ==
  /\ last.op = "unregister_sys_handler"
  /\ last.args[1] \notin DOMAIN registry_before
  /\ last.args[1] \in ever_registered
  /\ get_sys_handler_count = 2

\* C7: after clear_sys_handlers the count is 0 and every SYS id looks up to
\* none and invokes to -1; a registration made after a clear succeeds and is
\* visible.
C7_Clear ==
  /\ last.op = "clear_sys_handlers"
       => /\ get_sys_handler_count = 0
          /\ \A sys_id \in SysIds : get_sys_handler(sys_id) = NULL /\ InvokeMisses(sys_id)
  /\ (cleared_size >= 0 /\ last.op = "register_sys_handler" /\ last.args[2] # NULL)
       => /\ last.ret = TRUE
          /\ get_sys_handler(last.args[1]) = last.args[2]
          /\ InvokeCalls(last.args[1], last.args[2])
          /\ get_sys_handler_count =
               CountBefore + (IF last.args[1] \in DOMAIN registry_before THEN 0 ELSE 1)

\* the first registration after a clear that emptied a full registry
C7_Witness ==
  /\ cleared_size = 3
  /\ last.op = "register_sys_handler"
  /\ registry_before = EmptyRegistry
  /\ last.ret = TRUE
  /\ get_sys_handler_count = 1

----------------------------------------------------------------------------
(* Properties of the device table (SpecDdt) *)

Triple(dev) == <<dev.kind, dev.role, dev.index>>

\* the (kind, role, index) triples of a table are pairwise distinct
DistinctTriples(devices) ==
  \A i, j \in 1..Len(devices) : i # j => Triple(devices[i]) # Triple(devices[j])

\* number of descriptors of a table with that kind
OfKind(devices, kind) == Cardinality({i \in 1..Len(devices) : devices[i].kind = kind})

RECURSIVE SumCounts(_)
SumCounts(kinds) ==
  IF kinds = {} THEN 0
  ELSE LET kind == CHOOSE k \in kinds : TRUE IN
       count_devices(kind) + SumCounts(kinds \ {kind})

\* C8: in an installed table with pairwise distinct (kind, role, index), find
\* of a descriptor's triple returns that descriptor, equal in all five fields.
C8_FindReturnsDescriptor ==
  (last.op = "find_device" /\ provider_ # NULL /\ DistinctTriples(get_all_devices))
    => \A i \in 1..Len(get_all_devices) :
         Triple(get_all_devices[i]) = last.args
           => /\ last.ret \in 1..Len(get_all_devices)
              /\ get_all_devices[last.ret] = get_all_devices[i]

\* the second of two descriptors that differ in the index alone is found
C8_Witness ==
  /\ last.op = "find_device"
  /\ provider_ = "p1"
  /\ Len(get_all_devices) = 2
  /\ get_all_devices[1].kind = get_all_devices[2].kind
  /\ get_all_devices[1].role = get_all_devices[2].role
  /\ get_all_devices[1].index # get_all_devices[2].index
  /\ last.args = Triple(get_all_devices[2])
  /\ last.ret = 2

\* no provider installed, or one whose table is empty
NoDevices == provider_ = NULL \/ Len(get_devices(provider_)) = 0

\* C9: with no provider or an empty table, find returns not-found for every
\* query, get_all_devices is empty and count_devices is 0 for every kind.
C9_NoDevices ==
  NoDevices
    => /\ last.op \in {"find_device", "find_default_device"} => last.ret = 0
       /\ last.op = "count_devices" => last.ret = 0
       /\ last.op = "get_all_devices" => Len(last.ret) = 0
       /\ \A kind \in QueryKinds, role \in QueryRoles, index \in QueryIndexes :
            find_device(kind, role, index) = 0
       /\ \A kind \in QueryKinds : count_devices(kind) = 0
       /\ get_all_devices = <<>>

\* a find on the installed provider p1, whose table is empty
C9_Witness ==
  /\ provider_ = "p1"
  /\ Len(tables["p1"]) = 0
  /\ last.op = "find_device"
  /\ last.ret = 0

\* C10: count_devices(kind) is the number of descriptors of get_all_devices
\* with that kind, whatever their role and index; over all kinds the counts
\* add up to the length of get_all_devices.
C10_CountMatchesAll ==
  /\ last.op = "count_devices" => last.ret = OfKind(get_all_devices, last.args[1])
  /\ SumCounts(QueryKinds) = Len(get_all_devices)

\* two descriptors of one kind with different roles counted
C10_Witness ==
  /\ last.op = "count_devices"
  /\ provider_ = "p1"
  /\ Len(get_all_devices) = 2
  /\ get_all_devices[1].role # get_all_devices[2].role
  /\ last.ret = 2

\* the table of the provider the latest set_provider call named
InstalledTable == IF installed = NULL THEN <<>> ELSE tables[installed]

\* position of the first descriptor of a table with that triple, 0 if none
FirstMatch(devices, triple) ==
  IF \E i \in 1..Len(devices) : Triple(devices[i]) = triple
    THEN CHOOSE i \in 1..Len(devices) :
           /\ Triple(devices[i]) = triple
           /\ \A j \in 1..(i - 1) : Triple(devices[j]) # triple
    ELSE 0

C12_FindDefault ==
  last.op = "find_default_device"
    => /\ last.ret = find_device(last.args[1], last.args[2], 0)
       /\ last.ret = FirstMatch(get_all_devices, <<last.args[1], last.args[2], 0>>)

\* not-found although a descriptor with that kind and role has index 1
C12_Witness ==
  /\ last.op = "find_default_device"
  /\ last.ret = 0
  /\ \E i \in 1..Len(get_all_devices) :
       /\ get_all_devices[i].kind = last.args[1]
       /\ get_all_devices[i].role = last.args[2]
       /\ get_all_devices[i].index = 1

----------------------------------------------------------------------------
(* The LED handlers *)

\* the handler the last call ran, nullptr if it ran none
HandlerRun ==
  IF last.op = "invoke_sys_handler" /\ last.calls # <<>> THEN last.calls[1][1] ELSE NULL

LedCall == HandlerRun \in LedHandlers

\* the calls the last handler made to the driver, and to the device table
DriverCalls == SelectSeq(led_log, LAMBDA call : call[1] \in {"set_led", "get_led"})
DriverWrites == SelectSeq(led_log, LAMBDA call : call[1] = "set_led")
TableQueries == SelectSeq(led_log, LAMBDA call : call[1] = "find_device")

\* the index an LED call addresses: bits 16-23 of arg2 for SET, and for the
\* others arg2 as find_led passes it on
LedIndex(args) ==
  IF args[1] = V4SYS_LED_SET THEN (args[4] \div 65536) % 256 ELSE args[4] % 256

\* position in the installed table of the descriptor an LED call addresses, 0 if none
Resolved(args) ==
  IF args[2] = V4DEV_LED
    THEN FirstMatch(get_all_devices, <<args[2], args[3], LedIndex(args)>>)
    ELSE 0

ActiveLow(desc) == desc.flags % 2 = 1

\* whether the LED of a descriptor is logically on in a driver state
LogicalOn(states, desc) == IF ActiveLow(desc) THEN ~states[desc.handle] ELSE states[desc.handle]

Bit(b) == IF b THEN 1 ELSE 0

\* C13: with no LED driver installed (never set, or set to null after the
\* handlers were registered) or no provider installed, each of the five LED
\* handlers returns 0 and makes no driver call; once the missing one is
\* installed again, the same invocation succeeds under the same registrations.
C13_Unconfigured ==
  LedCall =>
    /\ (led_hal = NULL \/ provider_ = NULL)
         => /\ last.ret = 0
            /\ DriverCalls = <<>>
            /\ led_states = led_before
    /\ (led_hal # NULL /\ provider_ # NULL /\ last.args = unconfigured_call
          /\ Resolved(last.args) # 0)
         => /\ DriverCalls # <<>>
            /\ last.ret = IF HandlerRun = "sys_led_get"
                            THEN Bit(LogicalOn(led_states, get_all_devices[Resolved(last.args)]))
                            ELSE 1

\* the call that failed without a driver or provider returns 1 once both are there
C13_Witness ==
  /\ LedCall
  /\ last.args = unconfigured_call
  /\ led_hal # NULL
  /\ provider_ # NULL
  /\ last.ret = 1

\* C14: for each of the five LED handlers, a kind argument other than the LED
\* kind gives 0 with no device-table query and no driver call, even when the
\* table holds a descriptor of that kind with the same role and index.
C14_WrongKind ==
  (LedCall /\ last.args[2] # V4DEV_LED)
    => /\ last.ret = 0
       /\ led_log = <<>>
       /\ led_states = led_before

\* a button that is in the table, asked for through an LED handler
C14_Witness ==
  /\ LedCall
  /\ last.args[2] = V4DEV_BUTTON
  /\ led_hal # NULL
  /\ FirstMatch(get_all_devices, <<last.args[2], last.args[3], last.args[4]>>) # 0
  /\ last.ret = 0

\* the descriptor the last LED call resolved
ResolvedDesc == get_all_devices[Resolved(last.args)]

\* the last call ran handler and the handler found its device
Found(handlers) ==
  /\ HandlerRun \in handlers
  /\ led_hal # NULL
  /\ Resolved(last.args) # 0

\* what GET returns in this state for the device of the last call
GetAgain ==
  invoke_sys_handler(V4SYS_LED_GET, last.args[2], last.args[3], LedIndex(last.args)).ret

\* C15: for ON, OFF, TOGGLE and GET and every 32-bit arg2, values above 255
\* and negative ones included, the device resolved is the one whose index
\* field equals arg2: when the installed table holds no LED descriptor whose
\* (role, index) is (arg1, arg2), the handler returns 0 and the driver's
\* recorded state is unchanged, with no driver call.
C15_IndexIsArg2 ==
  (/\ HandlerRun \in {"sys_led_on", "sys_led_off", "sys_led_toggle", "sys_led_get"}
   /\ FirstMatch(get_all_devices, <<V4DEV_LED, last.args[3], last.args[4]>>) = 0)
    => /\ last.ret = 0
       /\ DriverCalls = <<>>
       /\ led_states = led_before

\* C16: polarity is inverted exactly once: after a successful ON on a
\* descriptor with handle H, GET on the same (kind, role, index) returns 1
\* and the driver's level of H is low if the descriptor is active-low and
\* high if not; after a successful OFF, GET returns 0 and the level is the
\* opposite one.
C16_Polarity ==
  /\ (Found({"sys_led_on"}) /\ last.ret = 1)
       => /\ GetAgain = 1
          /\ led_states[ResolvedDesc.handle] = ~ActiveLow(ResolvedDesc)
  /\ (Found({"sys_led_off"}) /\ last.ret = 1)
       => /\ GetAgain = 0
          /\ led_states[ResolvedDesc.handle] = ActiveLow(ResolvedDesc)

\* an active-low LED that was off is switched on: its pin went from high to low
C16_Witness ==
  /\ Found({"sys_led_on"})
  /\ last.ret = 1
  /\ ActiveLow(ResolvedDesc)
  /\ led_before[ResolvedDesc.handle]
  /\ ~led_states[ResolvedDesc.handle]

\* C17: two successful TOGGLEs in a row on the same device restore it: the
\* driver's level of the handle, and what GET returns, are after the second
\* what they were before the first, for active-high and active-low
\* descriptors and for either starting state.
C17_ToggleTwice ==
  toggled_from # <<>>
    => /\ led_states = toggled_from[1]
       /\ led_before[ResolvedDesc.handle] # toggled_from[1][ResolvedDesc.handle]
       /\ GetAgain = Bit(LogicalOn(toggled_from[1], ResolvedDesc))

\* an active-low LED that was off, toggled twice
C17_Witness ==
  /\ toggled_from # <<>>
  /\ HandlerRun = "sys_led_toggle"
  /\ ActiveLow(ResolvedDesc)
  /\ toggled_from[1][ResolvedDesc.handle]

\* the handler a SET stands for, by the low 16 bits of its arg2
SetMeans(arg2) == IF arg2 % 65536 # 0 THEN "sys_led_on" ELSE "sys_led_off"

\* C18: SET takes the index from bits 16-23 of arg2 and the state from bits
\* 0-15 (nonzero is ON), whatever bits 24-31 are: it returns what ON, or
\* OFF, of the same kind, role and that index returns, and leaves the driver
\* as that call leaves it, the device logically on, or off, when it succeeds.
C18_SetDecoding ==
  [][(last'.op = "invoke_sys_handler" /\ last'.calls # <<>>
        /\ last'.calls[1][1] = "sys_led_set")
       => LET args == last'.args
              index == (args[4] \div 65536) % 256
              same == RunHandler(SetMeans(args[4]), args[1], args[2], args[3], index)
          IN  /\ index \in 0..255
              /\ last'.ret = same.ret
              /\ led_states' = same.led_states
              /\ (last'.ret = 1 /\ Resolved(args) # 0)
                   => LogicalOn(led_states', get_all_devices[Resolved(args)])
                        = (args[4] % 65536 # 0)]_vars

\* a SET with bit 24 set switches the active-low LED at index 1 on
C18_Witness ==
  /\ Found({"sys_led_set"})
  /\ last.args[4] = 16842753
  /\ last.ret = 1
  /\ ResolvedDesc.index = 1
  /\ led_states # led_before
  /\ LogicalOn(led_states, ResolvedDesc)

\* C19: GET on a resolved device returns 1 if the driver reports it on and 0
\* if off; GET on an unresolved device returns 0 as well; GET never writes
\* to the driver, whose recorded state stays as it was.
C19_Get ==
  HandlerRun = "sys_led_get"
    => /\ DriverWrites = <<>>
       /\ led_states = led_before
       /\ last.ret = IF Found({"sys_led_get"})
                       THEN Bit(LogicalOn(led_states, ResolvedDesc))
                       ELSE 0

\* GET answers 1 for an active-low LED whose pin is low
C19_Witness ==
  /\ Found({"sys_led_get"})
  /\ ActiveLow(ResolvedDesc)
  /\ ~led_states[ResolvedDesc.handle]
  /\ last.ret = 1
  /\ led_states # [h \in Handles |-> FALSE]

\* C20: for ON, OFF, SET and TOGGLE on a resolved device the handler returns
\* 1 exactly when the driver's set call reported success, and 0 when it
\* reported failure although the device was found.
C20_DriverFailure ==
  Found({"sys_led_on", "sys_led_off", "sys_led_set", "sys_led_toggle"})
    => /\ Len(DriverWrites) = 1
       /\ DriverWrites[1][2] = ResolvedDesc.handle
       /\ last.ret = Bit(DriverWrites[1][5])
       /\ DriverWrites[1][5] = hal_ok
       /\ ~hal_ok => led_states = led_before

\* a device that was found and a write that failed
C20_Witness ==
  /\ Found({"sys_led_toggle"})
  /\ ~hal_ok
  /\ last.ret = 0
  /\ Len(DriverWrites) = 1

\* C21: every result of the five LED handlers is 0 or 1, whatever the
\* arguments, the driver and the table; so invoke on an LED opcode returns
\* -1 exactly when no handler is registered for that opcode.
C21_ResultRange ==
  /\ LedCall => last.ret \in {0, 1}
  /\ (last.op = "invoke_sys_handler" /\ last.args[1] \in LedSysIds)
       => (last.ret = -1 <=> last.args[1] \notin DOMAIN registry_before)
  /\ \A sys_id \in LedSysIds, arg0 \in Kinds, arg1 \in Roles, arg2 \in LedArg2 :
       LET out == invoke_sys_handler(sys_id, arg0, arg1, arg2) IN
       IF sys_id \in DOMAIN handler_registry THEN out.ret \in {0, 1} ELSE out.ret = -1

\* a registered GET for a device that is not in the table answers 0, not -1
C21_Witness ==
  /\ HandlerRun = "sys_led_get"
  /\ led_hal # NULL
  /\ provider_ # NULL
  /\ Resolved(last.args) = 0
  /\ last.args[2] = V4DEV_LED
  /\ last.ret = 0

\* the handler register_led_sys_handlers puts under each LED opcode
LedHandlerOf ==
  [sys_id \in LedSysIds |->
     CASE sys_id = V4SYS_LED_ON -> "sys_led_on"
       [] sys_id = V4SYS_LED_OFF -> "sys_led_off"
       [] sys_id = V4SYS_LED_TOGGLE -> "sys_led_toggle"
       [] sys_id = V4SYS_LED_SET -> "sys_led_set"
       [] sys_id = V4SYS_LED_GET -> "sys_led_get"]

\* C22: register_led_sys_handlers maps exactly the five pairwise distinct
\* opcodes ON, OFF, TOGGLE, SET, GET, all in the LED band 0x0100-0x01FF, each
\* to its own handler: on an empty registry the count becomes 5, a second
\* call leaves the count as it is, handlers already under those opcodes are
\* overwritten and the mappings of all other opcodes stay.
C22_RegisterLed ==
  last.op = "register_led_sys_handlers"
    => /\ Cardinality(LedSysIds) = 5
       /\ \A sys_id \in LedSysIds : sys_id >= 256 /\ sys_id <= 511
       /\ DOMAIN handler_registry = DOMAIN registry_before \cup LedSysIds
       /\ \A sys_id \in LedSysIds : handler_registry[sys_id] = LedHandlerOf[sys_id]
       /\ \A sys_id \in DOMAIN registry_before \ LedSysIds :
            handler_registry[sys_id] = registry_before[sys_id]
       /\ registry_before = EmptyRegistry => get_sys_handler_count = 5
       /\ LedSysIds \subseteq DOMAIN registry_before
            => get_sys_handler_count = MapSize(registry_before)

\* registered over a test handler under ON, next to a handler of another band
C22_Witness ==
  /\ last.op = "register_led_sys_handlers"
  /\ MapFind(registry_before, V4SYS_LED_ON) = "mock_led_on"
  /\ MapFind(registry_before, V4SYS_BUTTON_READ) = "mock_led_on"
  /\ MapFind(handler_registry, V4SYS_LED_ON) = "sys_led_on"
  /\ get_sys_handler_count = 6

\* C30: the registry, the installed provider and the installed LED driver
\* are independent: set_provider and set_led_hal leave the handler registry
\* as it is, and register, unregister, clear and register_led_sys_handlers
\* leave the provider, the driver and the driver's recorded levels as they
\* are, so that the LED handlers registered again after a clear work with
\* the same table and driver.
C30_Independent ==
  [][/\ last'.op \in {"set_provider", "set_led_hal"}
          => handler_registry' = handler_registry
     /\ last'.op \in {"register_sys_handler", "unregister_sys_handler",
                      "clear_sys_handlers", "register_led_sys_handlers"}
          => /\ provider_' = provider_
             /\ tables' = tables
             /\ led_hal' = led_hal
             /\ led_states' = led_states
             /\ \A sys_id \in LedSysIds :
                  (MapFind(handler_registry, sys_id) = LedHandlerOf[sys_id]
                     /\ MapFind(handler_registry', sys_id) = LedHandlerOf[sys_id])
                    => /\ invoke_sys_handler(sys_id, V4DEV_LED, V4ROLE_STATUS, 0).ret'
                            = invoke_sys_handler(sys_id, V4DEV_LED, V4ROLE_STATUS, 0).ret
                       /\ invoke_sys_handler(sys_id, V4DEV_LED, V4ROLE_STATUS, 0).led_states'
                            = invoke_sys_handler(sys_id, V4DEV_LED, V4ROLE_STATUS, 0).led_states]_vars

\* cleared with all five LED handlers and a lit LED, registered again, and
\* OFF finds the LED through the same table and driver
C30_Witness ==
  /\ cleared_size >= 5
  /\ HandlerRun = "sys_led_off"
  /\ last.ret = 1
  /\ led_before[7]
  /\ ~led_states[7]

----------------------------------------------------------------------------
(* The registry as a whole *)

\* the opcodes for which lookup returns a handler
Mapped == {sys_id \in SysIds \cup LedSysIds : get_sys_handler(sys_id) # NULL}

\* C27: after any sequence of register, unregister and clear calls from the
\* empty registry, the count is the number of distinct opcodes for which
\* lookup returns a handler, and every stored handler is non-null: lookup
\* returns none exactly for the unmapped opcodes.
C27_CountIsMapped ==
  /\ get_sys_handler_count = Cardinality(Mapped)
  /\ Mapped = DOMAIN handler_registry
  /\ \A sys_id \in DOMAIN handler_registry : handler_registry[sys_id] # NULL
  /\ last.op = "get_sys_handler_count" => last.ret = Cardinality(Mapped)
  /\ last.op = "get_sys_handler"
       => (last.ret = NULL <=> last.args[1] \notin DOMAIN handler_registry)

\* two of three opcodes are left after registrations, a clear and an unregister
C27_Witness ==
  /\ last.op = "get_sys_handler_count"
  /\ last.ret = 2
  /\ ever_registered = SysIds
  /\ cleared_size > 0

\* C28: lookup is a pure query, and so is a dispatch that misses: lookup of
\* any opcode and invoke of an unregistered opcode leave the count and every
\* opcode's mapping as they were, and make no entry for the opcode.
C28_PureQueries ==
  (\/ last.op = "get_sys_handler"
   \/ (last.op = "invoke_sys_handler" /\ last.args[1] \notin DOMAIN registry_before))
    => /\ handler_registry = registry_before
       /\ get_sys_handler_count = CountBefore
       /\ last.args[1] \in DOMAIN handler_registry <=> last.args[1] \in DOMAIN registry_before

\* a lookup that misses in a registry that holds other opcodes
C28_Witness ==
  /\ last.op = "get_sys_handler"
  /\ last.ret = NULL
  /\ last.args[1] \notin DOMAIN handler_registry
  /\ get_sys_handler_count = 2

----------------------------------------------------------------------------
(* The LED handlers and their driver *)

WritingHandlers == {"sys_led_on", "sys_led_off", "sys_led_toggle", "sys_led_set"}

\* C23: LED devices are independent: a handler invoked on a resolved
\* descriptor with handle H calls the driver with handle H only, so the
\* driver's recorded level of every other handle is left as it was by any
\* ON, OFF, TOGGLE, SET or GET on H.
C23_OtherHandles ==
  LedCall =>
    IF Found(LedHandlers)
      THEN /\ DriverCalls # <<>>
           /\ \A i \in 1..Len(DriverCalls) : DriverCalls[i][2] = ResolvedDesc.handle
           /\ \A h \in Handles \ {ResolvedDesc.handle} : led_states[h] = led_before[h]
      ELSE /\ DriverCalls = <<>>
           /\ led_states = led_before

\* the LED on pin 8 changes while the lit LED on pin 7 stays lit
C23_Witness ==
  /\ Found(WritingHandlers)
  /\ ResolvedDesc.handle = 8
  /\ led_states[8] # led_before[8]
  /\ led_states[7]
  /\ led_before[7]

\* the logical state a writing handler was asked for
Requested ==
  CASE HandlerRun = "sys_led_on" -> TRUE
    [] HandlerRun = "sys_led_off" -> FALSE
    [] HandlerRun = "sys_led_set" -> last.args[4] % 65536 # 0
    [] HandlerRun = "sys_led_toggle" -> ~LogicalOn(led_before, ResolvedDesc)

\* C24 as stated: each of ON, OFF, TOGGLE and SET itself computes
\* physicalState = activeLow ? !logicalState : logicalState before it calls
\* the driver, and each of GET and TOGGLE itself computes logicalState =
\* activeLow ? !physicalState : physicalState after the call: the state
\* exchanged between handler and driver is the physical level.
C24_HandlerInverts ==
  /\ Found(WritingHandlers)
       => DriverWrites[1][3] = Physical(Requested, ActiveLow(ResolvedDesc))
  /\ Found({"sys_led_get"})
       => last.ret = Bit(Physical(DriverCalls[1][4], ActiveLow(ResolvedDesc)))

\* C24, amended: each of ON, OFF, TOGGLE and SET passes the logical state
\* and the descriptor's active-low flag to the driver, and GET returns the
\* driver's answer as it is: the state exchanged between handler and driver
\* is the logical one, and the driver computes the physical level from it.
C24_DriverInverts ==
  /\ Found(WritingHandlers)
       => /\ DriverWrites[1][3] = Requested
          /\ DriverWrites[1][4] = ActiveLow(ResolvedDesc)
          /\ DriverWrites[1][5]
               => led_states[ResolvedDesc.handle]
                    = Physical(Requested, ActiveLow(ResolvedDesc))
  /\ Found({"sys_led_get"})
       => /\ DriverCalls[1][3] = ActiveLow(ResolvedDesc)
          /\ last.ret = Bit(DriverCalls[1][4])
          /\ DriverCalls[1][4] = Physical(led_states[ResolvedDesc.handle],
                                          ActiveLow(ResolvedDesc))

\* ON of an active-low LED: the driver is handed true and pulls the pin low
C24_Witness ==
  /\ Found({"sys_led_on"})
  /\ ActiveLow(ResolvedDesc)
  /\ DriverWrites[1][3]
  /\ DriverWrites[1][4]
  /\ ~led_states[ResolvedDesc.handle]
  /\ led_before[ResolvedDesc.handle]

\* C26: TOGGLE on a resolved descriptor makes, in this order, exactly one
\* driver get and then exactly one driver set whose state is the negation of
\* the value just read, with the same handle and active-low flag in both;
\* after a successful TOGGLE, GET returns the negation of what GET returned
\* just before it.
C26_ToggleOrder ==
  Found({"sys_led_toggle"})
    => /\ Len(DriverCalls) = 2
       /\ DriverCalls[1][1] = "get_led"
       /\ DriverCalls[2][1] = "set_led"
       /\ DriverCalls[1][2] = ResolvedDesc.handle
       /\ DriverCalls[2][2] = ResolvedDesc.handle
       /\ DriverCalls[1][3] = ActiveLow(ResolvedDesc)
       /\ DriverCalls[2][4] = ActiveLow(ResolvedDesc)
       /\ DriverCalls[2][3] = ~DriverCalls[1][4]
       /\ last.ret = 1 => GetAgain = 1 - Bit(LogicalOn(led_before, ResolvedDesc))

\* an active-low LED that was off is toggled on
C26_Witness ==
  /\ Found({"sys_led_toggle"})
  /\ last.ret = 1
  /\ ActiveLow(ResolvedDesc)
  /\ led_before[ResolvedDesc.handle]
  /\ GetAgain = 1

\* C25: ON, and OFF, on a resolved descriptor calls the driver's set exactly
\* once, with the descriptor's handle, state true for ON and false for OFF,
\* and activeLow = bit 0 of the descriptor's flags; the other flag bits
\* change neither the call nor the result.
C25_OneWrite ==
  Found({"sys_led_on", "sys_led_off"})
    => /\ led_log = << <<"find_device", V4DEV_LED, last.args[3], last.args[4] % 256>>,
                       <<"set_led", ResolvedDesc.handle, HandlerRun = "sys_led_on",
                         ResolvedDesc.flags % 2 = 1, hal_ok>> >>
       /\ last.ret = Bit(hal_ok)
       /\ hal_ok => led_states[ResolvedDesc.handle]
                      = ((HandlerRun = "sys_led_on") # (ResolvedDesc.flags % 2 = 1))

\* ON of a descriptor with flag bit 1 set and bit 0 clear: active-high
C25_Witness ==
  /\ Found({"sys_led_on"})
  /\ ResolvedDesc.flags = 2
  /\ last.ret = 1
  /\ led_states[ResolvedDesc.handle]
  /\ ~led_before[ResolvedDesc.handle]

\* the positions of the installed table that hold a triple
Matches(triple) ==
  {i \in 1..Len(get_all_devices) : Triple(get_all_devices[i]) = triple}

\* C29: when the installed sequence holds several descriptors with the same
\* (kind, role, index), find returns the one that comes first, with its
\* handle and flags, and the LED handlers act on that first one only; the
\* table is not deduplicated and no error occurs.
C29_FirstOfDuplicates ==
  /\ (last.op = "find_device" /\ Matches(last.args) # {})
       => /\ last.ret \in Matches(last.args)
          /\ \A i \in Matches(last.args) : last.ret <= i
  /\ provider_ # NULL => get_all_devices = tables[provider_]
  /\ last.op = "count_devices" => last.ret = OfKind(get_all_devices, last.args[1])
  /\ Found(LedHandlers)
       => LET dups == Matches(Triple(ResolvedDesc))
              first == get_all_devices[CHOOSE i \in dups : \A j \in dups : i <= j]
          IN  /\ \A i \in 1..Len(DriverCalls) : DriverCalls[i][2] = first.handle
              /\ \A i \in 1..Len(DriverWrites) :
                   DriverWrites[i][4] = (first.flags % 2 = 1)
              /\ \A h \in Handles \ {first.handle} : led_states[h] = led_before[h]
              /\ HandlerRun \in {"sys_led_on", "sys_led_off", "sys_led_set"}
                   => last.ret = 1

\* ON through a table whose first status LED is active-low on pin 7 and
\* whose second is active-high on pin 8: pin 7 goes low, pin 8 stays
C29_Witness ==
  /\ Found({"sys_led_on"})
  /\ Cardinality(Matches(Triple(ResolvedDesc))) = 2
  /\ get_all_devices[1].handle = 7
  /\ get_all_devices[1].flags = 1
  /\ get_all_devices[2].handle = 8
  /\ get_all_devices[2].flags = 0
  /\ led_before[7]
  /\ ~led_states[7]
  /\ led_states[8] = led_before[8]

----------------------------------------------------------------------------
(* Handlers that call back into the registry *)

\* what lookup and invoke of the opcode of the last call give in this state
LookupNow == get_sys_handler(last.args[1])
InvokeNow == invoke_sys_handler(last.args[1], last.args[2], last.args[3], last.args[4])

\* C32: a handler that, while invoke runs it, unregisters or replaces the
\* mapping of its own opcode, or clears the registry, does not disturb the
\* call in flight: invoke returns that handler's result, and the change is
\* what the following lookups and invokes see: -1 after unregister or
\* clear, the new handler after a replacement.
C32_Reentrant ==
  HandlerRun \in ReentrantHandlers
    => /\ last.calls = << <<MapFind(registry_before, last.args[1])>> \o last.args >>
       /\ last.ret = CallReentrant(HandlerRun, last.args[1], last.args[2], last.args[3],
                                   last.args[4])
       /\ HandlerRun = "handler_unregisters_self"
            => /\ handler_registry = MapErase(registry_before, last.args[1])
               /\ LookupNow = NULL
               /\ InvokeNow.ret = -1
               /\ InvokeNow.calls = <<>>
       /\ HandlerRun = "handler_replaces_self"
            => /\ handler_registry = MapPut(registry_before, last.args[1], "mock_led_on")
               /\ LookupNow = "mock_led_on"
               /\ InvokeNow.ret = 1
               /\ InvokeNow.calls = << <<"mock_led_on">> \o last.args >>
       /\ HandlerRun = "handler_clears"
            => /\ handler_registry = EmptyRegistry
               /\ get_sys_handler_count = 0
               /\ \A sys_id \in ReentrantSysIds :
                    /\ get_sys_handler(sys_id) = NULL
                    /\ invoke_sys_handler(sys_id, last.args[2], 0, 0).ret = -1

\* a handler unregistered itself from a registry of two and still returned
\* its result; the other mapping is left
C32_Witness ==
  /\ HandlerRun = "handler_unregisters_self"
  /\ last.ret = 2
  /\ CountBefore = 2
  /\ get_sys_handler_count = 1
  /\ LookupNow = NULL

----------------------------------------------------------------------------
(* Termination *)

\* the positions 1..n in order
UpTo(n) == [k \in 1..n |-> k]

\* the call that last returned is the one running describes
Returned(op) == running.pc = "idle" /\ running.op = op /\ last.op = op /\ last.args = running.args

\* every scan looks at the descriptors in order, each at most once, and a
\* find stops at the first match; a lookup is one find in the map and an
\* invoke one lookup and at most one handler call
C31_BoundedWork ==
  /\ running.visited = UpTo(Len(running.visited))
  /\ (running.pc # "idle" \/ Returned(running.op))
       => Len(running.visited) <= Len(get_all_devices)
  /\ running.pc \in {"find", "count"} => running.i = Len(running.visited) + 1
  /\ running.lookups <= 1
  /\ running.handler_calls <= running.lookups
  /\ Returned("find_device")
       => /\ last.ret = find_device(last.args[1], last.args[2], last.args[3])
          /\ running.visited = UpTo(IF last.ret # 0 THEN last.ret ELSE Len(get_all_devices))
  /\ Returned("count_devices")
       => /\ last.ret = count_devices(last.args[1])
          /\ running.visited = UpTo(Len(get_all_devices))
  /\ Returned("get_sys_handler")
       => /\ running.lookups = 1
          /\ running.handler_calls = 0
          /\ last.ret = get_sys_handler(last.args[1])
  /\ Returned("invoke_sys_handler")
       => /\ running.lookups = 1
          /\ running.handler_calls = Len(last.calls)
          /\ running.handler_calls = 1 <=> last.args[1] \in DOMAIN registry_before

\* a call that was entered returns
C31_Returns == (running.pc # "idle") ~> (running.pc = "idle")

\* C31: every find, count, lookup and invoke terminates: over a finite
\* descriptor sequence find and count visit each descriptor at most once,
\* find stopping at the first match, and invoke performs one lookup and at
\* most one handler call, so that with handlers and a driver that return,
\* every dispatched LED operation returns.
C31_Terminates == []C31_BoundedWork /\ C31_Returns

\* a find that went through the whole table of six and returned not-found,
\* and before it an LED handler that was dispatched and returned
C31_Witness ==
  /\ Returned("find_device")
  /\ last.ret = 0
  /\ Len(running.visited) = 6
  /\ led_states[7]

====
